---- MODULE Spec2Model ----
(***************************************************************************)
(* Job lifecycle and concurrency manager of the YouTube-to-MP3 converter   *)
(* (src/main.py): the job table, the duplicate-suppression set, the        *)
(* conversion semaphore, one conversion task per token, the download       *)
(* endpoint and the periodic cleanup loop.                                 *)
(*                                                                         *)
(* Text is modelled as a sequence of symbols, so that paths are built,     *)
(* probed and renamed the way the code does it with strings.  A Python     *)
(* dict is a function whose domain is the set of keys it holds; the job    *)
(* table also keeps the insertion order of its keys (variable order),      *)
(* which is the order the cleanup loop visits them in.                      *)
(*                                                                         *)
(* The event loop runs a coroutine without interruption up to its next     *)
(* suspending await, so each action below is one such stretch of code.     *)
(* The job record's timing fields are left out: start_time is written     *)
(* into the Processing record and read back from that same record only to  *)
(* compute conversion_time, which nothing reads.                           *)
(***************************************************************************)
EXTENDS Integers, Sequences, FiniteSets, TLC

\* ------------------------------------------------------------- bounds
\* Number of tokens POST /convert may hand out.
MaxJobs == 3
\* The clock stops advancing at MaxTime; it advances TickStep seconds a step,
\* which takes it past one retention window.
MaxTime == 602
TickStep == 601
\* Capacity of the conversion semaphore.  main.py:37 sets it to 10; the
\* model runs the same gate with a small capacity so that MaxJobs
\* submissions can fill it and wait behind it.
MAX_CONCURRENT_CONVERSIONS == 2

\* The clock of the metadata lookups advances CacheStep seconds a step, two
\* steps to the freshness window of the cache, up to MaxCacheTime.
CacheStep == 1800
MaxCacheTime == 7201

\* Number of consecutive ticks of the cleanup loop that are followed.
MaxTicks == 3

\* -------------------------------------------------- program constants
FILE_EXPIRY_MINUTES == 10
max_attempts == 3
CACHE_SECONDS == 3600
TITLE_MAX == 100
MIN_FILE_SIZE == 100 * 1024

Tokens == 1..MaxJobs

\* The source URLs a client submits (all accepted by YOUTUBE_REGEX).
Urls == {"u1", "u2"}

\* ------------------------------------------------------------- text
DOWNLOAD_DIR == <<"downloads">>
MP3 == <<".", "mp3">>
Unknown == <<"Unknown">>

\* re.sub(r'[\\/*?:"<>|]', "", title)
Hostile == {"\\", "/", "*", "?", ":", "\"", "<", ">", "|"}

RECURSIVE lstrip(_)
lstrip(s) == IF s # <<>> /\ Head(s) = " " THEN lstrip(Tail(s)) ELSE s

RECURSIVE rstrip(_)
rstrip(s) ==
    IF s # <<>> /\ s[Len(s)] = " " THEN rstrip(SubSeq(s, 1, Len(s) - 1)) ELSE s

IsSafe(c) == c \notin Hostile

sanitize_filename(title) ==
    LET sanitized == rstrip(lstrip(SelectSeq(title, IsSafe)))
    IN  SubSeq(sanitized, 1, IF Len(sanitized) < TITLE_MAX THEN Len(sanitized) ELSE TITLE_MAX)

\* s.rfind(c), counted from 1: the index of the last occurrence of symbol c
\* in s, 0 when there is none.
rfind(s, c) ==
    LET found == {i \in 1..Len(s) : s[i] = c}
    IN  IF found = {} THEN 0 ELSE CHOOSE i \in found : \A j \in found : j <= i

\* s.rsplit('.', 1)[0]
rsplit_stem(s) ==
    LET i == rfind(s, ".") IN IF i = 0 THEN s ELSE SubSeq(s, 1, i - 1)

\* s.endswith(suffix)
endswith(s, suffix) ==
    /\ Len(s) >= Len(suffix)
    /\ SubSeq(s, Len(s) - Len(suffix) + 1, Len(s)) = suffix

\* os.path.basename(path)
basename(path) == SubSeq(path, rfind(path, "/") + 1, Len(path))

\* ------------------------------------------------------ dictionaries
\* d.get(key, default)
Get(d, key, default) == IF key \in DOMAIN d THEN d[key] ELSE default

\* d[key] = value
SetKey(d, key, value) ==
    [k \in DOMAIN d \cup {key} |-> IF k = key THEN value ELSE d[k]]

\* The metadata the resolver returns for a URL.
VideoInfo(url) ==
    IF url = "u1" THEN [title |-> <<" ", "S", "/", "g">>, id |-> <<"id1">>]
    ELSE IF url = "u2" THEN [title |-> <<"S", ".", "g">>, id |-> <<"id2">>]
    ELSE [title |-> <<"T">>, id |-> <<"id3">>]

\* get_video_id(url): the media id parsed from the URL text.
get_video_id(url) == VideoInfo(url).id

VARIABLES
    jobs,                 \* token -> job record (dict)
    order,                \* the tokens of jobs in insertion order
    current_conversions,  \* set of URLs under conversion
    sem,                  \* free permits of conversion_semaphore
    task,                 \* token -> position and locals of its background task
    disk,                 \* path -> size, of the files under downloads/
    cache,                \* media id -> cached metadata file
    now,                  \* time.time()
    nextToken             \* the next fresh token

vars == <<jobs, order, current_conversions, sem, task, disk, cache, now, nextToken>>

\* The format and player_client entries get_ydl_opts returns.
InitialOpts == [format |-> "bestaudio/best", player_client |-> <<"android", "web">>]

\* A task that has not started or has returned holds no locals.
NoInfo == [title |-> <<>>, id |-> <<>>]

NoTask == [pc |-> "none", url |-> "", attempt |-> 0, info |-> NoInfo, opts |-> InitialOpts]

Init ==
    /\ jobs = <<>>
    /\ order = <<>>
    /\ current_conversions = {}
    /\ sem = MAX_CONCURRENT_CONVERSIONS
    /\ task = [t \in Tokens |-> NoTask]
    /\ disk = <<>>
    /\ cache = <<>>
    /\ now = 1
    /\ nextToken = 1

\* jobs[token] = record: a new key goes to the end of the insertion order.
SetJob(J, O, token, record) ==
    IF token \in DOMAIN J
    THEN [jobs |-> [J EXCEPT ![token] = record], order |-> O]
    ELSE [jobs |-> [k \in DOMAIN J \cup {token} |-> IF k = token THEN record ELSE J[k]],
          order |-> Append(O, token)]

\* del jobs[token]
DelJob(J, O, token) ==
    LET keep(k) == k # token
    IN  [jobs |-> [k \in DOMAIN J \ {token} |-> J[k]],
         order |-> SelectSeq(O, keep)]

\* A file written at path with the given size.
WriteFile(D, path, size) ==
    [p \in DOMAIN D \cup {path} |-> IF p = path THEN size ELSE D[p]]

\* os.remove(path)
RemoveFile(D, path) == [p \in DOMAIN D \ {path} |-> D[p]]

\* os.rename(src, dst), which replaces dst
RenameFile(D, src, dst) ==
    [p \in (DOMAIN D \ {src}) \cup {dst} |-> IF p = dst THEN D[src] ELSE D[p]]

\* The retention window taken in minutes where seconds are meant.
ExpiryFrom_minutes(time) == time + FILE_EXPIRY_MINUTES

\* time.time() + (FILE_EXPIRY_MINUTES * 60)
ExpiryFrom(time) == time + (FILE_EXPIRY_MINUTES * 60)

\* ------------------------------------------------------- POST /convert
\* next((k for k, v in jobs.items() if v.get('url') == url and
\*       v.get('status') == 'processing'), None); 0 stands for None.
RECURSIVE FirstProcessing(_, _, _)
FirstProcessing(J, keys, url) ==
    IF keys = <<>> THEN 0
    ELSE IF /\ Get(J[Head(keys)], "url", "") = url
            /\ Get(J[Head(keys)], "status", "") = "processing"
         THEN Head(keys)
         ELSE FirstProcessing(J, Tail(keys), url)

\* A token generator that hands out the token before the fresh one again.
ReusedToken == IF nextToken > 1 THEN nextToken - 1 ELSE nextToken

\* str(uuid.uuid4()): a token no job has had.
FreshToken == nextToken

\* The handler of POST /convert on job table J with insertion order O and
\* URL set C, given the token uuid4 would draw: the table it leaves, whether
\* it created a job, and the token and message it returns.
StartConversion(J, O, C, url, new_token) ==
    LET existing_token == IF url \in C THEN FirstProcessing(J, O, url) ELSE 0
        r == SetJob(J, O, new_token, [status |-> "queued", url |-> url])
    IN  IF existing_token # 0
        THEN [jobs |-> J, order |-> O, created |-> FALSE,
              token |-> existing_token,
              message |-> "Conversion already in progress"]
        ELSE [jobs |-> r.jobs, order |-> r.order, created |-> TRUE,
              token |-> new_token,
              message |-> "Conversion started"]

start_conversion(url) ==
    LET r == StartConversion(jobs, order, current_conversions, url, FreshToken)
    IN  /\ r.created => nextToken <= MaxJobs
        /\ jobs' = r.jobs
        /\ order' = r.order
        /\ task' = IF r.created
                   THEN [task EXCEPT ![r.token] =
                            [NoTask EXCEPT !.pc = "pending", !.url = url]]
                   ELSE task
        /\ nextToken' = IF r.created THEN nextToken + 1 ELSE nextToken
        /\ UNCHANGED <<current_conversions, sem, disk, cache, now>>

\* ---------------------------------------------------- metadata lookup
\* A cache whose entries never go stale.
CacheFresh_always(entry, time) == TRUE

\* time.time() - cached_info.get('cache_time', 0) < 3600
CacheFresh(entry, time) == time - Get(entry, "cache_time", 0) < CACHE_SECONDS

\* get_video_info(url) at the current time; resolverOk says whether the
\* external resolver (yt-dlp, then the Data API) answers or raises, and
\* resolved in the result whether it has been called.
get_video_info(url, resolverOk) ==
    LET video_id == get_video_id(url)
        fresh == /\ video_id \in DOMAIN cache
                 /\ CacheFresh(cache[video_id], now)
    IN  IF video_id = <<>>
        THEN [ok |-> FALSE, error |-> "Invalid YouTube URL", cache |-> cache,
              resolved |-> FALSE]
        ELSE IF fresh
        THEN [ok |-> TRUE, info |-> cache[video_id].info, cache |-> cache,
              resolved |-> FALSE]
        ELSE IF ~resolverOk
        THEN [ok |-> FALSE, error |-> "Error fetching video info", cache |-> cache,
              resolved |-> TRUE]
        ELSE [ok |-> TRUE, info |-> VideoInfo(url),
              cache |-> SetKey(cache, video_id,
                               [info |-> VideoInfo(url), cache_time |-> now]),
              resolved |-> TRUE]

\* POST /video/metadata: the lookup, answered with the metadata or with
\* 400 and the text of the exception.
get_metadata(url) ==
    \E resolverOk \in BOOLEAN :
        \E got \in {get_video_info(url, resolverOk)} :
            /\ cache' = got.cache
            /\ UNCHANGED <<jobs, order, current_conversions, sem, task, disk, now,
                           nextToken>>

\* --------------------------------------------------- conversion task
\* A gate that lets every task through.
CanAcquire_always == TRUE

\* asyncio.Semaphore.acquire returns at once while a permit is free.
CanAcquire == sem > 0

\* A finally clause that leaves the set as it is.
Discard_nothing(set, url) == set

\* current_conversions.discard(url)
Discard(set, url) == set \ {url}

\* An exit of "async with" that keeps the permit.
Release_leak(permits) == permits

\* The exit of "async with conversion_semaphore": release().
Release(permits) == permits + 1

\* str(DOWNLOAD_DIR / base_filename)
OutputPath(info) ==
    DOWNLOAD_DIR \o <<"/">> \o sanitize_filename(info.title) \o <<"-">> \o info.id

\* An except clause that records the status and leaves the error out.
FailedRecord_noError(url, error, title) ==
    [status |-> "failed", url |-> url, video_title |-> title]

\* The record the except clause of convert_video stores.
FailedRecord(url, error, title) ==
    [status |-> "failed", url |-> url, error |-> error, video_title |-> title]

\* The except and finally clauses of convert_video followed by the exit of
\* "async with conversion_semaphore": the failed record is stored, the URL
\* is discarded, the permit (held: TRUE when it had been taken in an earlier
\* step) is returned and the task ends.
FailJob(token, error, title, held) ==
    \E r \in {SetJob(jobs, order, token,
                     FailedRecord(task[token].url, error, title))} :
        /\ jobs' = r.jobs
        /\ order' = r.order
        /\ current_conversions' = Discard(current_conversions, task[token].url)
        /\ sem' = IF held THEN Release(sem) ELSE sem
        /\ task' = [task EXCEPT ![token] = [NoTask EXCEPT !.pc = "done"]]

\* run_conversion up to the first suspending await of convert_video
\* (main.py:455-365): gate, duplicate check, metadata, status processing.
run_conversion(token) ==
    /\ task[token].pc = "pending"
    /\ CanAcquire
    /\ LET url == task[token].url
       IN  IF url \in current_conversions
           THEN /\ FailJob(token, "400: This video is already being converted",
                           Unknown, FALSE)
                /\ UNCHANGED <<disk, cache, now, nextToken>>
           ELSE \E resolverOk \in BOOLEAN :
                  \E got \in {get_video_info(url, resolverOk)} :
                      IF ~got.ok
                      THEN /\ FailJob(token, got.error, Unknown, FALSE)
                           /\ UNCHANGED <<disk, cache, now, nextToken>>
                      ELSE \E base_filename \in
                                {sanitize_filename(got.info.title) \o <<"-">> \o got.info.id} :
                           LET r == SetJob(jobs, order, token,
                                      [status |-> "processing",
                                       url |-> url,
                                       filename |-> base_filename \o MP3,
                                       progress |-> "Starting download...",
                                       video_title |-> got.info.title])
                           IN  /\ jobs' = r.jobs
                               /\ order' = r.order
                               /\ current_conversions' = current_conversions \cup {url}
                               /\ cache' = got.cache
                               /\ sem' = sem - 1
                               /\ task' = [task EXCEPT ![token].pc = "downloading",
                                                       ![token].info = got.info]
                               /\ UNCHANGED <<disk, now, nextToken>>

\* progress_hook(d), called from the executor thread while ydl.download runs.
progress_hook(token, status) ==
    /\ task[token].pc = "downloading"
    /\ jobs' = [jobs EXCEPT ![token] =
                  SetKey(@, "progress",
                         IF status = "downloading" THEN "Downloading"
                         ELSE "Converting to MP3...")]
    /\ UNCHANGED <<order, current_conversions, sem, task, disk, cache, now,
                   nextToken>>

\* What one call of ydl.download can do: return with an output file of full
\* or of insufficient size, return without one, or raise in the middle of
\* the download and leave the partial file behind.
ExtractorOutcomes ==
    { [raises |-> FALSE, wrote |-> TRUE, ext |-> MP3, size |-> MIN_FILE_SIZE],
      [raises |-> FALSE, wrote |-> TRUE, ext |-> MP3, size |-> MIN_FILE_SIZE - 1],
      [raises |-> FALSE, wrote |-> FALSE, ext |-> <<>>, size |-> 0],
      [raises |-> TRUE, wrote |-> TRUE, ext |-> <<".", "part">>, size |-> MIN_FILE_SIZE - 1] }

\* for ext in ['.mp3', '.m4a', '.webm', '.part']
Candidates(output_path) ==
    << output_path \o MP3, output_path \o <<".", "m4a">>,
       output_path \o <<".", "webm">>, output_path \o <<".", "part">> >>

\* The first of the paths that os.path.exists finds; <<>> when none does.
FirstExisting(D, paths) ==
    LET found == {i \in 1..Len(paths) : paths[i] \in DOMAIN D}
    IN  IF found = {} THEN <<>>
        ELSE paths[CHOOSE i \in found : \A j \in found : i <= j]

\* The file the code takes for the output; <<>> when it finds none.
find_output(D, output_path) ==
    LET candidate == FirstExisting(D, Candidates(output_path))
    IN  IF candidate # <<>> THEN candidate
        ELSE IF output_path \in DOMAIN D THEN output_path
        ELSE <<>>

\* main.py:376-398 on disk D: locate, rename to .mp3, check the size.
process_output(D, output_path) ==
    LET found == find_output(D, output_path)
        renamed == ~endswith(found, MP3)
        mp3_file == rsplit_stem(found) \o MP3
        actual_file == IF renamed THEN mp3_file ELSE found
        D1 == IF renamed THEN RenameFile(D, found, mp3_file) ELSE D
        file_size == D1[actual_file]
    IN  IF found = <<>>
        THEN [ok |-> FALSE, error |-> "No output file found after conversion", disk |-> D]
        ELSE IF file_size < MIN_FILE_SIZE
        THEN [ok |-> FALSE, error |-> "File too small, likely incomplete",
              disk |-> RemoveFile(D1, actual_file)]
        ELSE [ok |-> TRUE, disk |-> D1, actual_file |-> actual_file,
              file_size |-> file_size]

CompletedRecord(token, actual_file, file_size) ==
    [status |-> "completed",
     url |-> task[token].url,
     filename |-> basename(actual_file),
     file_path |-> actual_file,
     expires_at |-> ExpiryFrom(now),
     video_title |-> task[token].info.title,
     file_size |-> file_size]

\* The success path of convert_video from main.py:400 to the release of the
\* semaphore.
CompleteJob(token, actual_file, file_size) ==
    \E r \in {SetJob(jobs, order, token,
                     CompletedRecord(token, actual_file, file_size))} :
        /\ jobs' = r.jobs
        /\ order' = r.order
        /\ current_conversions' = Discard(current_conversions, task[token].url)
        /\ sem' = Release(sem)
        /\ task' = [task EXCEPT ![token] = [NoTask EXCEPT !.pc = "done"]]

\* ydl_opts as modified after a failed attempt (main.py:372-373).
RelaxedOpts(attempt) ==
    [format |-> IF attempt = 0 THEN "bestaudio/best" ELSE "bestaudio",
     player_client |-> IF attempt = 1 THEN <<"android">> ELSE <<"web">>]

\* str(e) of the exception ydl.download raises in the given attempt
\* (attempts are counted from 0, as range(max_attempts) counts them).
ExtractorError(attempt) ==
    IF attempt = 0 THEN "DownloadError in attempt 1"
    ELSE IF attempt = 1 THEN "DownloadError in attempt 2"
    ELSE "DownloadError in attempt 3"

\* A retry loop that gives up at the first failed attempt.
LastAttempt_first(attempt) == attempt = 0

\* if attempt == max_attempts - 1: raise
LastAttempt(attempt) == attempt = max_attempts - 1

\* ydl.download returns or raises in the executor; the task resumes and runs
\* to its end or, after a failed attempt that is not the last, through the
\* backoff sleep into the next attempt.  The sleeping task touches nothing,
\* so a state in which it sleeps is the state in which its next attempt has
\* just begun, and the two are one state here.
download_returns(token) ==
    /\ task[token].pc = "downloading"
    /\ \E output_path \in {OutputPath(task[token].info)},
          title \in {task[token].info.title} :
         \/ \E o \in {x \in ExtractorOutcomes : x.raises} :
              /\ disk' = WriteFile(disk, output_path \o o.ext, o.size)
              /\ IF LastAttempt(task[token].attempt)
                 THEN /\ FailJob(token, ExtractorError(task[token].attempt),
                                 title, TRUE)
                      /\ UNCHANGED <<cache, now, nextToken>>
                 ELSE /\ task' = [task EXCEPT ![token].attempt = @ + 1,
                                              ![token].opts = RelaxedOpts(task[token].attempt)]
                      /\ UNCHANGED <<jobs, order, current_conversions, sem, cache,
                                     now, nextToken>>
         \/ \E o \in {x \in ExtractorOutcomes : ~x.raises} :
              \E out \in {process_output(
                              IF o.wrote
                              THEN WriteFile(disk, output_path \o o.ext, o.size)
                              ELSE disk,
                              output_path)} :
                  /\ disk' = out.disk
                  /\ IF out.ok
                     THEN CompleteJob(token, out.actual_file, out.file_size)
                     ELSE FailJob(token, out.error, title, TRUE)
                  /\ UNCHANGED <<cache, now, nextToken>>

\* ------------------------------------------------------- cleanup loop
\* A test that takes every job for expired.
Expired_always(job, time) == TRUE

\* job.get('expires_at', 0) < current_time
Expired(job, time) == Get(job, "expires_at", 0) < time

\* A loop that deletes the record of every expired job.
Prunable_always(job) == TRUE

\* if job['status'] != 'processing'
Prunable(job) == job.status # "processing"

\* The for loop of one tick over the snapshot items; failAt is the token
\* at whose file os.remove raises (0: it never raises), which ends the
\* tick in the except clause with the work done so far.
RECURSIVE cleanup_loop(_, _, _, _, _)
cleanup_loop(items, J, O, D, failAt) ==
    IF items = <<>> THEN [jobs |-> J, order |-> O, disk |-> D]
    ELSE LET token == Head(items)
             job == J[token]
             file_path == Get(job, "file_path", <<>>)
             removes == file_path # <<>> /\ file_path \in DOMAIN D
             D1 == IF removes THEN RemoveFile(D, file_path) ELSE D
             R == IF Prunable(job) THEN DelJob(J, O, token)
                  ELSE [jobs |-> J, order |-> O]
         IN  IF Expired(job, now)
             THEN IF removes /\ failAt = token
                  THEN [jobs |-> J, order |-> O, disk |-> D]
                  ELSE cleanup_loop(Tail(items), R.jobs, R.order, D1, failAt)
             ELSE cleanup_loop(Tail(items), J, O, D, failAt)

\* The "while True" of cleanup_old_files from job table J and disk D: n
\* ticks one after the other, with nothing else running in between and
\* os.remove raising at the file of job failAt in each of them.
RECURSIVE Ticks(_, _, _, _, _)
Ticks(n, J, O, D, failAt) ==
    IF n = 0 THEN [jobs |-> J, order |-> O, disk |-> D]
    ELSE LET r == cleanup_loop(O, J, O, D, failAt)
         IN  Ticks(n - 1, r.jobs, r.order, r.disk, failAt)

\* One tick of cleanup_old_files.
cleanup_old_files ==
    \E failAt \in {0} \cup DOMAIN jobs :
        LET r == cleanup_loop(order, jobs, order, disk, failAt)
        IN  /\ jobs' = r.jobs
            /\ order' = r.order
            /\ disk' = r.disk
            /\ UNCHANGED <<current_conversions, sem, task, cache, now, nextToken>>

\* ------------------------------------------------ GET /download/{token}
\* A handler that extends the expiry before it looks for the file.
DownloadFile_extendFirst(J, D, time, token) ==
    LET job == Get(J, token, <<>>)
        file_path == Get(job, "file_path", <<>>)
        extended == [J EXCEPT ![token] = SetKey(@, "expires_at", ExpiryFrom(time))]
    IN  IF token \notin DOMAIN J \/ Get(job, "status", "") # "completed"
        THEN [jobs |-> J, disk |-> D, code |-> 404,
              detail |-> "File not ready or expired"]
        ELSE IF file_path = <<>> \/ file_path \notin DOMAIN D
        THEN [jobs |-> extended, disk |-> D, code |-> 404,
              detail |-> "File not found"]
        ELSE [jobs |-> extended, disk |-> D, code |-> 200,
              detail |-> "attachment"]

\* A handler that serves and extends whatever record it finds.
DownloadFile_anyStatus(J, D, time, token) ==
    IF token \notin DOMAIN J
    THEN [jobs |-> J, disk |-> D, code |-> 404,
          detail |-> "File not ready or expired"]
    ELSE [jobs |-> [J EXCEPT ![token] =
                      SetKey(@, "expires_at", ExpiryFrom(time))],
          disk |-> D, code |-> 200, detail |-> "attachment"]

\* The handler of GET /download/{token} on job table J and disk D at the
\* given time: the table and the disk it leaves and the status code it
\* answers with (404 with the detail of the HTTPException, 200 with the
\* file served).
DownloadFile(J, D, time, token) ==
    LET job == Get(J, token, <<>>)
        file_path == Get(job, "file_path", <<>>)
    IN  IF token \notin DOMAIN J \/ Get(job, "status", "") # "completed"
        THEN [jobs |-> J, disk |-> D, code |-> 404,
              detail |-> "File not ready or expired"]
        ELSE IF file_path = <<>> \/ file_path \notin DOMAIN D
        THEN [jobs |-> J, disk |-> D, code |-> 404, detail |-> "File not found"]
        ELSE [jobs |-> [J EXCEPT ![token] =
                          SetKey(@, "expires_at", ExpiryFrom(time))],
              disk |-> D, code |-> 200, detail |-> "attachment"]

download_file(token) ==
    LET r == DownloadFile(jobs, disk, now, token)
    IN  /\ jobs' = r.jobs
        /\ disk' = r.disk
        /\ UNCHANGED <<order, current_conversions, sem, task, cache, now,
                       nextToken>>

\* --------------------------------------------------- GET /status/{token}
\* The handler of GET /status/{token} on job table J: 404 when jobs.get
\* finds no record, the record otherwise.
GetStatus(J, token) ==
    LET job == Get(J, token, <<>>)
    IN  IF job = <<>>
        THEN [code |-> 404, detail |-> "Job not found"]
        ELSE [code |-> 200, body |-> job]

\* The handler reads and writes nothing.
get_status(token) ==
    /\ GetStatus(jobs, token).code \in {200, 404}
    /\ UNCHANGED vars

\* --------------------------------------------------------------- time
Tick ==
    /\ now + TickStep <= MaxTime
    /\ now' = now + TickStep
    /\ UNCHANGED <<jobs, order, current_conversions, sem, task, disk, cache,
                   nextToken>>

\* The URLs a client may submit next: the tokens before the last go to
\* submissions of "u1", the last one to a submission of either URL, so
\* that up to MaxJobs jobs of one URL and jobs of two URLs both occur.
Submittable == IF nextToken < MaxJobs THEN {"u1"} ELSE Urls

Next ==
    \/ \E url \in Submittable : start_conversion(url)
    \/ \E token \in Tokens : run_conversion(token)
    \/ \E token \in Tokens, status \in {"downloading", "finished"} :
          progress_hook(token, status)
    \/ \E token \in Tokens : download_returns(token)
    \/ cleanup_old_files
    \/ \E token \in Tokens : download_file(token)
    \/ \E token \in Tokens : get_status(token)
    \/ Tick

Spec == Init /\ [][Next]_vars

\* The conversion tasks with the cleanup loop running among them, at one
\* moment of the clock.
NextLive ==
    \/ \E url \in Submittable : start_conversion(url)
    \/ \E token \in Tokens : run_conversion(token)
    \/ \E token \in Tokens, status \in {"downloading", "finished"} :
          progress_hook(token, status)
    \/ \E token \in Tokens : download_returns(token)
    \/ cleanup_old_files

\* The event loop runs every task that can run: a task whose download has
\* returned or raised is resumed, and the waiters of the semaphore are
\* woken in turn, so a task that can take a permit again and again takes
\* one.
Fairness ==
    \A token \in Tokens :
        /\ SF_vars(run_conversion(token))
        /\ WF_vars(download_returns(token))

SpecLive == Init /\ [][NextLive]_vars /\ Fairness

\* Metadata lookups, from POST /video/metadata and from starting tasks,
\* over a span of time of two freshness windows.
TickCache ==
    /\ now + CacheStep <= MaxCacheTime
    /\ now' = now + CacheStep
    /\ UNCHANGED <<jobs, order, current_conversions, sem, task, disk, cache,
                   nextToken>>

NextCache ==
    \/ \E url \in Urls : get_metadata(url)
    \/ \E url \in Submittable : start_conversion(url)
    \/ \E token \in Tokens : run_conversion(token)
    \/ TickCache

SpecCache == Init /\ [][NextCache]_vars

\* Submissions of pairwise different URLs, one per token, so that the
\* semaphore is all that keeps a pending task from running.
DistinctUrl == IF nextToken = 1 THEN "u1" ELSE IF nextToken = 2 THEN "u2" ELSE "u3"

NextGate ==
    \/ start_conversion(DistinctUrl)
    \/ \E token \in Tokens : run_conversion(token)
    \/ \E token \in Tokens, status \in {"downloading", "finished"} :
          progress_hook(token, status)
    \/ \E token \in Tokens : download_returns(token)
    \/ cleanup_old_files
    \/ \E token \in Tokens : download_file(token)
    \/ Tick

SpecGate == Init /\ [][NextGate]_vars

\* ---------------------------------------------------------- properties
ProcessingTokens == {t \in DOMAIN jobs : jobs[t].status = "processing"}

ProcessingOf(url) == {t \in ProcessingTokens : jobs[t].url = url}

\* The status changes a record present before and after a step makes.
StatusChanges ==
    {<<jobs[t].status, jobs'[t].status>> :
        t \in {k \in DOMAIN jobs \cap DOMAIN jobs' : jobs'[k].status # jobs[k].status}}

\* C1, as stated: every change of a job record's status is
\* Queued->Processing, Processing->Completed or Processing->Failed; no
\* status is skipped and none is moved back to.
C1_ChainOnly ==
    [][StatusChanges \subseteq
          { <<"queued", "processing">>, <<"processing", "completed">>,
            <<"processing", "failed">> }]_vars

\* C1, amended: every change of a job record's status is Queued->Processing,
\* Queued->Failed, Processing->Completed or Processing->Failed, so no job
\* moves back to an earlier status; a record that is not in the table comes
\* into it as Queued for a fresh token, or as Processing or Failed for a
\* token whose task has not run yet (the cleanup loop has removed its
\* Queued record), and the record of a task that has not run yet is Queued.
C1_Transitions ==
    [][/\ StatusChanges \subseteq
             { <<"queued", "processing">>, <<"queued", "failed">>,
               <<"processing", "completed">>, <<"processing", "failed">> }
       /\ \A t \in DOMAIN jobs' \ DOMAIN jobs :
             \/ task[t].pc = "none" /\ jobs'[t].status = "queued"
             \/ task[t].pc = "pending" /\ jobs'[t].status \in {"processing", "failed"}
       /\ \A t \in DOMAIN jobs :
             task[t].pc = "pending" => jobs[t].status = "queued"]_vars

\* A job has failed at metadata resolution, straight from Queued, while
\* another one has gone through Processing to Completed.
C1_Witness ==
    /\ \E t \in DOMAIN jobs :
          jobs[t].status = "failed" /\ jobs[t].error = "Error fetching video info"
    /\ \E t \in DOMAIN jobs : jobs[t].status = "completed"

\* C2: in every reachable state at most MAX_CONCURRENT_CONVERSIONS job
\* records have status Processing.
C2_BoundedProcessing ==
    Cardinality(ProcessingTokens) <= MAX_CONCURRENT_CONVERSIONS

\* The gate is full and a task that nothing else holds back waits behind it.
C2_Witness ==
    /\ Cardinality(ProcessingTokens) = MAX_CONCURRENT_CONVERSIONS
    /\ \E t \in Tokens :
          task[t].pc = "pending" /\ task[t].url \notin current_conversions

\* C3: POST /convert for a URL that has a job with status Processing returns
\* the token of such a job and creates no job record.
C3_DuplicateReturnsExisting ==
    \A url \in Urls :
        ProcessingOf(url) # {} =>
            LET r == StartConversion(jobs, order, current_conversions, url, FreshToken)
            IN  /\ r.token \in ProcessingOf(url)
                /\ ~r.created
                /\ r.jobs = jobs

\* C4: in every reachable state at most one job of any one source URL has
\* status Processing.
C4_OneProcessingPerUrl ==
    \A url \in Urls : Cardinality(ProcessingOf(url)) <= 1

\* C5: in every reachable state the file of every Completed job exists on
\* disk and has at least 100 KiB.
C5_CompletedFileOnDisk ==
    \A t \in DOMAIN jobs :
        jobs[t].status = "completed" =>
            /\ jobs[t].file_path \in DOMAIN disk
            /\ disk[jobs[t].file_path] >= 100 * 1024

\* C6, as stated: after a tick of the cleanup loop at a time later than a
\* job's expires_at, whatever the removal of another job's other file
\* does, the job's file is not on disk and, unless the job is Processing,
\* its record is not in the job table.
C6_TickReapsExpired ==
    \A failAt \in {0} \cup DOMAIN jobs :
        LET r == cleanup_loop(order, jobs, order, disk, failAt)
            failing == IF failAt = 0 THEN <<>>
                       ELSE Get(jobs[failAt], "file_path", <<>>)
        IN  \A t \in DOMAIN jobs :
                ( /\ "expires_at" \in DOMAIN jobs[t]
                  /\ jobs[t].expires_at < now
                  /\ jobs[t].file_path # failing ) =>
                    /\ jobs[t].file_path \notin DOMAIN r.disk
                    /\ jobs[t].status # "processing" => t \notin DOMAIN r.jobs

\* C7, as stated: GET /download/{token} at a time later than the job's
\* expires_at answers 404, whether or not a tick of the cleanup loop has
\* run since.
C7_NotFoundAfterExpiry ==
    \A t \in DOMAIN jobs :
        ("expires_at" \in DOMAIN jobs[t] /\ jobs[t].expires_at < now) =>
            DownloadFile(jobs, disk, now, t).code = 404

\* C7, amended: GET /download/{token} answers 404 once the job's record
\* has left the job table, and a Completed record leaves the table only
\* at a time later than its expires_at; as long as the record is in the
\* table and its file on disk, the download succeeds, also after
\* expires_at.
C7_NotFoundOnceReaped ==
    [][\A t \in Tokens :
          /\ (t \in DOMAIN jobs /\ t \notin DOMAIN jobs') =>
                /\ jobs[t].status = "completed" => jobs[t].expires_at < now
                /\ DownloadFile(jobs', disk', now', t).code = 404
          /\ ( /\ t \in DOMAIN jobs'
               /\ jobs'[t].status = "completed"
               /\ jobs'[t].file_path \in DOMAIN disk' ) =>
                DownloadFile(jobs', disk', now', t).code = 200]_vars

\* The expires_at of a Completed job has passed, no tick has removed the
\* record, and the download still serves the file.
C7_Witness ==
    \E t \in DOMAIN jobs :
        /\ jobs[t].status = "completed"
        /\ jobs[t].expires_at < now
        /\ DownloadFile(jobs, disk, now, t).code = 200

\* C8: a GET /download/{token} that succeeds at time now sets the job's
\* expires_at to now + FILE_EXPIRY_MINUTES * 60 and changes no other field
\* of the record, no other record and no file.
C8_DownloadExtendsExpiry ==
    \A t \in Tokens :
        LET r == DownloadFile(jobs, disk, now, t)
        IN  r.code = 200 =>
                /\ r.jobs[t].expires_at = now + FILE_EXPIRY_MINUTES * 60
                /\ DOMAIN r.jobs = DOMAIN jobs
                /\ DOMAIN r.jobs[t] = DOMAIN jobs[t]
                /\ \A k \in DOMAIN jobs[t] \ {"expires_at"} :
                      r.jobs[t][k] = jobs[t][k]
                /\ \A u \in DOMAIN jobs \ {t} : r.jobs[u] = jobs[u]
                /\ r.disk = disk

\* A download succeeds and moves the expires_at of its record while the
\* table holds another record.
C8_Witness ==
    \E t \in DOMAIN jobs :
        LET r == DownloadFile(jobs, disk, now, t)
        IN  /\ r.code = 200
            /\ r.jobs[t].expires_at # jobs[t].expires_at
            /\ DOMAIN jobs # {t}

\* C9: GET /download/{token} answers 404 when the token has no record,
\* when the record is not Completed and when the record's file is not on
\* disk, and in each case leaves the job table and the disk as they were.
C9_NotFoundLeavesState ==
    \A t \in Tokens :
        LET r == DownloadFile(jobs, disk, now, t)
        IN  ( \/ t \notin DOMAIN jobs
              \/ jobs[t].status # "completed"
              \/ jobs[t].file_path \notin DOMAIN disk ) =>
                /\ r.code = 404
                /\ r.jobs = jobs
                /\ r.disk = disk

\* All three cases at a time when an extension would show: a token
\* without a record, a record that is not Completed, and a Completed
\* record whose expires_at is not now + FILE_EXPIRY_MINUTES * 60 and whose
\* file is gone.
C9_Witness ==
    /\ \E t \in Tokens : t \notin DOMAIN jobs
    /\ \E t \in DOMAIN jobs : jobs[t].status # "completed"
    /\ \E t \in DOMAIN jobs :
          /\ jobs[t].status = "completed"
          /\ jobs[t].file_path \notin DOMAIN disk
          /\ jobs[t].expires_at # now + FILE_EXPIRY_MINUTES * 60
          /\ DownloadFile(jobs, disk, now, t).code = 404

\* C10, as stated, for the one job of a run with a single submission:
\* when the job is Failed, nothing its run produced is on disk.
C10_FailedLeavesNoFile ==
    ( /\ nextToken = 2
      /\ 1 \in DOMAIN jobs
      /\ jobs[1].status = "failed" ) => DOMAIN disk = {}

\* The errors with which ydl.download can raise.
ExtractorErrors == {ExtractorError(a) : a \in 0..(max_attempts - 1)}

\* C11: a task calls the extractor at most max_attempts = 3 times and not
\* again after a call that returns; after a call that raises and is not the
\* third, the job stays Processing and the next call follows; the job is
\* Failed with an extractor error only when the third call raises, and the
\* error recorded is the one of that call; a call that returns, the third
\* included, makes the job Completed exactly when it leaves an output of
\* at least 100 KiB.
C11_BoundedRetries ==
    [][\A t \in Tokens :
          (task[t].pc = "downloading" /\ task'[t] # task[t]) =>
             /\ task[t].attempt < 3
             /\ \/ /\ task'[t].pc = "downloading"
                   /\ task'[t].attempt = task[t].attempt + 1
                   /\ task'[t].attempt < 3
                   /\ jobs'[t] = jobs[t]
                \/ /\ task'[t].pc = "done"
                   /\ jobs'[t].status \in {"completed", "failed"}
                   /\ (jobs'[t].status = "failed" /\ jobs'[t].error \in ExtractorErrors) =>
                         /\ task[t].attempt = 2
                         /\ jobs'[t].error = "DownloadError in attempt 3"
                   /\ (jobs'[t].status = "failed" => jobs'[t].error \notin ExtractorErrors) =>
                         LET mp3_file == OutputPath(task[t].info) \o MP3
                         IN  jobs'[t].status = "completed" <=>
                                /\ mp3_file \in DOMAIN disk'
                                /\ disk'[mp3_file] >= MIN_FILE_SIZE]_vars

\* Two calls of the extractor have raised, the third one is running, and
\* the job is still Processing.
C11_Witness ==
    \E t \in Tokens :
        /\ task[t].pc = "downloading"
        /\ task[t].attempt = 2
        /\ jobs[t].status = "processing"

\* C12: when a task ends, with whatever outcome, its URL is not in
\* current_conversions; so in every state in which no task is inside
\* convert_video the set is empty and POST /convert creates a job for any
\* URL.
C12_UrlReleased ==
    [][/\ \A t \in Tokens :
             (task[t].pc # "done" /\ task'[t].pc = "done") =>
                 task[t].url \notin current_conversions'
       /\ (\A t \in Tokens : task'[t].pc # "downloading") =>
             /\ current_conversions' = {}
             /\ \A url \in Urls :
                   StartConversion(jobs', order', current_conversions', url,
                                   nextToken').created]_vars

\* No task is inside convert_video, and tasks have ended with a Completed
\* job, with a job Failed at extraction and with a job Failed at the
\* validation of the output.
C12_Witness ==
    /\ \A t \in Tokens : task[t].pc # "downloading"
    /\ \E t \in DOMAIN jobs : jobs[t].status = "completed"
    /\ \E t \in DOMAIN jobs :
          jobs[t].status = "failed" /\ jobs[t].error \in ExtractorErrors
    /\ \E t \in DOMAIN jobs :
          jobs[t].status = "failed" /\ jobs[t].error = "File too small, likely incomplete"

C14_QueuedNotReaped ==
    \A failAt \in {0} \cup DOMAIN jobs :
        LET r == cleanup_loop(order, jobs, order, disk, failAt)
        IN  \A t \in DOMAIN jobs :
                jobs[t].status = "queued" =>
                    /\ t \in DOMAIN r.jobs
                    /\ GetStatus(r.jobs, t).code = 200

\* C15, as stated: no job is Failed with the error of the duplicate check,
\* that is, for the sole reason that its URL was in current_conversions
\* when its task started.
C15_NoDuplicateFailure ==
    \A t \in DOMAIN jobs :
        jobs[t].status = "failed" =>
            jobs[t].error # "400: This video is already being converted"

C17_TerminalPayload ==
    \A t \in DOMAIN jobs :
        /\ "expires_at" \in DOMAIN jobs[t] <=> jobs[t].status = "completed"
        /\ "file_path" \in DOMAIN jobs[t] <=> jobs[t].status = "completed"
        /\ "error" \in DOMAIN jobs[t] <=> jobs[t].status = "failed"

\* A Completed record whose expires_at a download has moved, next to a
\* Failed and a Processing record.
C17_Witness ==
    /\ \E t \in DOMAIN jobs :
          jobs[t].status = "completed" /\ jobs[t].expires_at > MaxTime
    /\ \E t \in DOMAIN jobs : jobs[t].status = "failed"
    /\ \E t \in DOMAIN jobs : jobs[t].status = "processing"

\* C18: a tick of the cleanup loop, whenever it runs and wherever an
\* os.remove of it raises, leaves every Processing record in the job table
\* as it is; a Processing record stays in the table, and stays Processing
\* until the step in which its own task ends.
C18_ProcessingNotReaped ==
    [][/\ \A failAt \in {0} \cup DOMAIN jobs :
             LET r == cleanup_loop(order, jobs, order, disk, failAt)
             IN  \A t \in ProcessingTokens :
                     t \in DOMAIN r.jobs /\ r.jobs[t] = jobs[t]
       /\ \A t \in ProcessingTokens :
             /\ t \in DOMAIN jobs'
             /\ jobs'[t].status # "processing" =>
                   task[t].pc = "downloading" /\ task'[t].pc = "done"]_vars

\* A job is Processing in the backoff after a failed attempt while the
\* table holds a Completed record that the next tick removes.
C18_Witness ==
    /\ \E t \in ProcessingTokens : task[t].attempt > 0
    /\ \E u \in DOMAIN jobs :
          /\ jobs[u].status = "completed"
          /\ jobs[u].expires_at < now
          /\ u \notin DOMAIN cleanup_loop(order, jobs, order, disk, 0).jobs

\* C19: while a job is Processing, POST /convert for any URL, GET /status
\* and GET /download for any token and a tick of the cleanup loop leave its
\* record as it is, and so does every step of another token's task; the
\* record changes only in a progress update of its own task and in the step
\* in which its own task ends.
C19_OwnerWritesOnly ==
    [][\A t \in ProcessingTokens :
          /\ \A url \in Urls :
                StartConversion(jobs, order, current_conversions, url,
                                FreshToken).jobs[t] = jobs[t]
          /\ \A u \in Tokens :
                /\ DownloadFile(jobs, disk, now, u).jobs[t] = jobs[t]
                /\ GetStatus(jobs, u).code \in {200, 404}
          /\ \A failAt \in {0} \cup DOMAIN jobs :
                cleanup_loop(order, jobs, order, disk, failAt).jobs[t] = jobs[t]
          /\ (\E u \in Tokens \ {t} : task'[u] # task[u]) => jobs'[t] = jobs[t]
          /\ jobs'[t] # jobs[t] =>
                \/ task[t].pc = "downloading" /\ task'[t].pc = "done"
                \/ /\ task' = task
                   /\ task[t].pc = "downloading"
                   /\ jobs'[t] = SetKey(jobs[t], "progress", jobs'[t].progress)]_vars

\* A job is Processing with a progress its own task has written, while the
\* task of another job of the same URL has ended.
C19_Witness ==
    \E t \in ProcessingTokens :
        /\ jobs[t].progress # "Starting download..."
        /\ \E u \in DOMAIN jobs \ {t} :
              jobs[u].url = jobs[t].url /\ task[u].pc = "done"

\* C20, as stated: in every reachable state the URL of every Processing
\* job is in current_conversions.
C20_ProcessingUrlActive ==
    \A t \in ProcessingTokens : jobs[t].url \in current_conversions

\* C21, as stated: when os.remove raises at the file of one expired job in
\* every tick, the cleanup loop goes on ticking and, MaxTicks ticks later
\* at the latest, every other Completed job whose expires_at has passed
\* and that nobody downloads any more is reaped: its file is deleted and
\* its record removed.
C21_OthersStillReaped ==
    \A failAt \in DOMAIN jobs :
        LET r == Ticks(MaxTicks, jobs, order, disk, failAt)
            failing == Get(jobs[failAt], "file_path", <<>>)
        IN  \A t \in DOMAIN jobs \ {failAt} :
                ( /\ jobs[t].status = "completed"
                  /\ jobs[t].expires_at < now
                  /\ jobs[t].file_path # failing ) =>
                    /\ t \notin DOMAIN r.jobs
                    /\ jobs[t].file_path \notin DOMAIN r.disk

====
